---- MODULE Spec2Model ----
(***************************************************************************)
(* Model of fill_trec.py: the overlay renderer (render), the field         *)
(* dispatcher, the image fallback (fetch_image / draw_image_url) and the   *)
(* text layout engine (wrap_text / draw_text_in_box).                      *)
(*                                                                         *)
(* Two specifications share the module:                                    *)
(*   Spec      render() as a state machine, one action per block of code.  *)
(*   SpecText  draw_text_in_box() with its call of wrap_text(), one action *)
(*             per loop iteration.                                         *)
(***************************************************************************)
EXTENDS Integers, Sequences, FiniteSets, TLC

\* ------------------------------------------------------------------ bounds
MaxPages == 2
MaxFields == 2
MaxTextLen == 5

\* --------------------------------------------------------------- variables
VARIABLES
    \* render(): inputs
    tpl,            \* state of the file at template_path
    values,         \* the value map handed to render()
    \* render(): locals
    pc,             \* position in render()
    err,            \* the exception that left render(), "" when none
    declared,       \* "template_sha256" in spec
    fieldPages,     \* fld["page"] of every entry of spec["fields"], in order
    hashComputed,   \* sha256_file(template_path) was called
    warned,         \* the [WARN] line was printed
    numPages,       \* len(reader.pages)
    fields_by_page, \* page number -> indices of the fields of that page
    pi,             \* page index of the enumerate loop (1-based)
    fi,             \* position in fields_by_page.get(pi, [])
    fld,            \* the field in hand in the body of the field loop (NoField outside it)
    canvas,         \* renderer calls made on the canvas of page pi
    data,           \* packet.getvalue() after c.save()
    writer,         \* pages appended to the PdfWriter
    opened,         \* number of times out_path was opened for writing
    written,        \* pages written to out_path
    fetchCalls,     \* requests.get calls of fetch_image while page pi is drawn, with
                    \* the locator asked for and what fetch_image returned
    imageCalls,     \* draw_image_url calls made while page pi is drawn
    \* draw_text_in_box() / wrap_text()
    tpc, text, box_pts, size, valign, max_w, words, wi, line, lines, y, li, drawn

renderVars == <<tpl, values, pc, err, declared, fieldPages, hashComputed, warned,
                numPages, fields_by_page, pi, fi, fld, canvas, data, writer,
                opened, written, fetchCalls, imageCalls>>
textVars == <<tpc, text, box_pts, size, valign, max_w, words, wi, line, lines, y, li, drawn>>
vars == <<renderVars, textVars>>

\* ------------------------------------------------------------------ values
\* A value of the map is a Python str or bool.
StrV(s) == [t |-> "str", s |-> s, b |-> FALSE]
BoolV(b) == [t |-> "bool", s |-> "", b |-> b]

Sentinel == "Data not found in test data"

\* str(val)
PyStr(v) == IF v.t = "str" THEN v.s ELSE IF v.b THEN "True" ELSE "False"
\* bool(val)
PyBool(v) == IF v.t = "str" THEN v.s # "" ELSE v.b

\* Field names are character sequences, so that endswith() is computed.
NameDate == <<"d">>
NameLbl == <<"d", "_", "l", "b", "l">>
NameStatus == <<"r", "_", "s", "t", "a", "t", "u", "s", "_", "l", "a", "b", "e", "l">>
Names == {NameDate, NameLbl, NameStatus}
SuffixLbl == <<"_", "l", "b", "l">>
SuffixStatusLabel == <<"_", "s", "t", "a", "t", "u", "s", "_", "l", "a", "b", "e", "l">>

EndsWith(name, suffix) ==
    /\ Len(name) >= Len(suffix)
    /\ SubSeq(name, Len(name) - Len(suffix) + 1, Len(name)) = suffix

Values == {BoolV(FALSE), StrV(""), StrV("John Doe")}
ValueKeys == {NameDate}
ValueMaps == UNION {[K -> Values] : K \in SUBSET ValueKeys}

DrawTypes == {"text", "multiline", "checkbox", "image", "link"}
Types == DrawTypes \cup {"label", "barcode"}
Placeholders == {StrV("N/A")}
\* fonts registered with the canvas, and one that is not
KnownFonts == {"Helvetica"}
Fonts == KnownFonts \cup {"NoSuchFont"}

NoField == [idx |-> 0, name |-> <<>>, ftype |-> "", font |-> "",
            hasPlaceholder |-> FALSE, placeholder |-> StrV("")]

FetchOutcomes == {"ok", "transport", "timeout", "status", "decode"}

\* ------------------------------------------------------------ render(): helpers
FieldPageSeqs == UNION {[1..k -> 1..MaxPages] : k \in 0..MaxFields}

\* fields_by_page.setdefault(fld["page"], []).append(fld), for every field
GroupByPage(fp) ==
    [p \in {fp[i] : i \in 1..Len(fp)} |->
        SelectSeq([i \in 1..Len(fp) |-> i], LAMBDA i : fp[i] = p)]

\* fields_by_page.get(p, [])
FieldsOfPage(d, p) == IF p \in DOMAIN d THEN d[p] ELSE <<>>

\* the test of the `continue` of the field loop
Skipped_TypeOnly(f) == f.ftype = "label"

Skipped(f) ==
    \/ EndsWith(f.name, SuffixStatusLabel)
    \/ EndsWith(f.name, SuffixLbl)
    \/ f.ftype = "label"

\* values.get(name, fld.get("placeholder", "Data not found in test data"))
ResolveValue_FalsyFallsBack(vals, f) ==
    IF f.name \in DOMAIN vals /\ PyBool(vals[f.name]) THEN vals[f.name]
    ELSE IF f.hasPlaceholder THEN f.placeholder
    ELSE StrV(Sentinel)

ResolveValue(vals, f) ==
    IF f.name \in DOMAIN vals THEN vals[f.name]
    ELSE IF f.hasPlaceholder THEN f.placeholder
    ELSE StrV(Sentinel)

\* fetch_image: every exception of the request, the status check and the
\* decoding is caught and gives None ("absent")
FetchImage_DecodeEscapes(outcome) ==
    IF outcome = "ok" THEN "image"
    ELSE IF outcome = "decode" THEN "raised" ELSE "absent"

FetchImage(outcome) == IF outcome = "ok" THEN "image" ELSE "absent"

\* One renderer call on the canvas.  kind is the drawing primitive, arg what
\* is drawn with it.
Op(i, kind, arg, va) == [idx |-> i, kind |-> kind, arg |-> arg, valign |-> va]

\* draw_text_in_box(c, text, box, font=..., valign=...) as seen by the canvas:
\* c.setFillColor(color), then c.setFont(font, size), which raises KeyError for a
\* font the canvas does not know, then the lines (laid out in SpecText)
DrawTextInBox(c, i, txt, font, va) ==
    IF font \in KnownFonts
    THEN [canvas |-> Append(c, Op(i, "text", txt, va)), raised |-> FALSE]
    ELSE [canvas |-> Append(c, Op(i, "setFillColor", "", "")), raised |-> TRUE]

\* draw_checkbox(c, checked, box)
DrawCheckbox(c, i, checked) ==
    Append(c, Op(i, "checkbox", IF checked THEN "checked" ELSE "unchecked", ""))

\* draw_image_url(c, url, box) once fetch_image has returned img
DrawImageUrl(c, i, img) ==
    IF img = "absent"
    THEN DrawTextInBox(Append(c, Op(i, "rect", "blue", "")), i, "Image unavailable",
                       "Helvetica", "middle").canvas
    ELSE Append(c, Op(i, "image", "scaled", ""))

\* len(overlay_pdf.pages): c.save() ends the page in hand only when something
\* was put on the canvas, so an untouched canvas saves a document of no page
OverlayPages_AlwaysOne(c) == IF Len(c) >= 0 THEN 1 ELSE 0

OverlayPages(c) == IF c = <<>> THEN 0 ELSE 1

\* writer.add_page(page)
AddPage_DropsFailed(w, i, content, outcome, tried) ==
    IF outcome = "MergeFailed" THEN w
    ELSE Append(w, [src |-> i, content |-> content, outcome |-> outcome, mergeTried |-> tried])

AddPage(w, i, content, outcome, tried) ==
    Append(w, [src |-> i, content |-> content, outcome |-> outcome, mergeTried |-> tried])

\* an exception leaves render() with the canvas as c: nothing after the raising
\* statement runs
Raise_WritesPartial(e, c) ==
    /\ pc' = "raised"
    /\ err' = e
    /\ canvas' = c
    /\ opened' = opened + 1
    /\ written' = writer
    /\ UNCHANGED <<tpl, values, declared, fieldPages, hashComputed, warned, numPages,
                   fields_by_page, pi, fi, fld, data, writer, fetchCalls, imageCalls>>

Raise(e, c) ==
    /\ pc' = "raised"
    /\ err' = e
    /\ canvas' = c
    /\ UNCHANGED <<tpl, values, declared, fieldPages, hashComputed, warned, numPages,
                   fields_by_page, pi, fi, fld, data, writer, opened, written,
                   fetchCalls, imageCalls>>

\* ------------------------------------------------------------ render(): actions
\* with open(spec_path) ... json.load
LoadSpec ==
    /\ pc = "load_spec"
    /\ \E exists \in BOOLEAN :
        IF ~exists
        THEN Raise("spec_missing", canvas)
        ELSE \E d \in BOOLEAN, fp \in FieldPageSeqs :
                /\ declared' = d
                /\ fieldPages' = fp
                /\ pc' = "check_digest"
                /\ UNCHANGED <<tpl, values, err, hashComputed, warned, numPages,
                               fields_by_page, pi, fi, fld, canvas, data, writer,
                               opened, written, fetchCalls, imageCalls>>
    /\ UNCHANGED textVars

\* if "template_sha256" in spec: ... print("[WARN] ...")
CheckDigestStep_Strict(match) ==
    /\ pc = "check_digest"
    /\ IF ~declared
       THEN /\ pc' = "read_template"
            /\ UNCHANGED <<tpl, values, err, declared, fieldPages, hashComputed, warned,
                           numPages, fields_by_page, pi, fi, fld, canvas, data, writer,
                           opened, written, fetchCalls, imageCalls>>
       ELSE IF tpl = "missing"
       THEN Raise("template_missing", canvas)
       ELSE IF ~match
       THEN Raise("digest_mismatch", canvas)
       ELSE /\ hashComputed' = TRUE
            /\ warned' = FALSE
            /\ pc' = "read_template"
            /\ UNCHANGED <<tpl, values, err, declared, fieldPages, numPages,
                           fields_by_page, pi, fi, fld, canvas, data, writer,
                           opened, written, fetchCalls, imageCalls>>

CheckDigestStep(match) ==
    /\ pc = "check_digest"
    /\ IF ~declared
       THEN /\ pc' = "read_template"
            /\ UNCHANGED <<tpl, values, err, declared, fieldPages, hashComputed, warned,
                           numPages, fields_by_page, pi, fi, fld, canvas, data, writer,
                           opened, written, fetchCalls, imageCalls>>
       ELSE IF tpl = "missing"
       THEN Raise("template_missing", canvas)
       ELSE /\ hashComputed' = TRUE
            /\ warned' = ~match
            /\ pc' = "read_template"
            /\ UNCHANGED <<tpl, values, err, declared, fieldPages, numPages,
                           fields_by_page, pi, fi, fld, canvas, data, writer,
                           opened, written, fetchCalls, imageCalls>>

CheckDigest ==
    /\ \E match \in BOOLEAN : CheckDigestStep(match)
    /\ UNCHANGED textVars

\* reader = PdfReader(template_path); writer = PdfWriter()
ReadTemplate ==
    /\ pc = "read_template"
    /\ IF tpl = "missing" THEN Raise("template_missing", canvas)
       ELSE IF tpl = "unreadable" THEN Raise("template_unreadable", canvas)
       ELSE \E n \in 0..MaxPages :
                /\ numPages' = n
                /\ writer' = <<>>
                /\ pc' = "group"
                /\ UNCHANGED <<tpl, values, err, declared, fieldPages, hashComputed, warned,
                               fields_by_page, pi, fi, fld, canvas, data,
                               opened, written, fetchCalls, imageCalls>>
    /\ UNCHANGED textVars

\* fields_by_page = {} ; for fld in spec["fields"]: ...
GroupFields ==
    /\ pc = "group"
    /\ fields_by_page' = GroupByPage(fieldPages)
    /\ pi' = 1
    /\ pc' = "page_loop"
    /\ UNCHANGED <<tpl, values, err, declared, fieldPages, hashComputed, warned, numPages,
                   fi, fld, canvas, data, writer, opened, written, fetchCalls, imageCalls>>
    /\ UNCHANGED textVars

\* for pi, page in enumerate(reader.pages, start=1): a fresh packet and canvas per page
BeginPage ==
    /\ pc = "page_loop"
    /\ IF pi > numPages
       THEN /\ pc' = "write"
            /\ UNCHANGED <<fi, canvas, data, fetchCalls, imageCalls>>
       ELSE /\ canvas' = <<>>
            /\ data' = [empty |-> TRUE, pages |-> 0]
            /\ fi' = 1
            /\ fetchCalls' = <<>>
            /\ imageCalls' = 0
            /\ pc' = "fields"
    /\ UNCHANGED <<tpl, values, err, declared, fieldPages, hashComputed, warned, numPages,
                   fields_by_page, pi, fld, writer, opened, written>>
    /\ UNCHANGED textVars

\* for fld in fields_by_page.get(pi, []): box, ftype, name, font, ... are read
PickField ==
    /\ pc = "fields"
    /\ fi <= Len(FieldsOfPage(fields_by_page, pi))
    /\ \E n \in Names, ty \in Types, fo \in Fonts, hp \in BOOLEAN, ph \in Placeholders :
        fld' = [idx |-> FieldsOfPage(fields_by_page, pi)[fi], name |-> n, ftype |-> ty,
                font |-> fo, hasPlaceholder |-> hp,
                placeholder |-> IF hp THEN ph ELSE StrV("")]
    /\ pc' = "dispatch"
    /\ UNCHANGED <<tpl, values, err, declared, fieldPages, hashComputed, warned, numPages,
                   fields_by_page, pi, fi, canvas, data, writer, opened, written,
                   fetchCalls, imageCalls>>
    /\ UNCHANGED textVars

\* the body of the field loop from the label test to the type dispatch;
\* outcome is what requests.get / Image.open do when an image is fetched
DispatchFieldStep(outcome) ==
    /\ pc = "dispatch"
    /\ LET val == ResolveValue(values, fld)
           img == FetchImage(outcome)
           next(c) == /\ canvas' = c
                      /\ fi' = fi + 1
                      /\ fld' = NoField
                      /\ pc' = "fields"
                      /\ UNCHANGED <<tpl, values, err, declared, fieldPages, hashComputed,
                                     warned, numPages, fields_by_page, pi, data,
                                     writer, opened, written>>
       IN  IF Skipped(fld)
           THEN next(canvas) /\ UNCHANGED <<fetchCalls, imageCalls>>
           ELSE IF fld.ftype \in {"text", "multiline", "link"}
           THEN LET r == DrawTextInBox(canvas, fld.idx, PyStr(val), fld.font,
                                       IF fld.ftype = "link" THEN "middle" ELSE "top")
                IN  IF r.raised
                    THEN Raise("field_draw", r.canvas)
                    ELSE next(r.canvas) /\ UNCHANGED <<fetchCalls, imageCalls>>
           ELSE IF fld.ftype = "checkbox"
           THEN next(DrawCheckbox(canvas, fld.idx, PyBool(val)))
                /\ UNCHANGED <<fetchCalls, imageCalls>>
           ELSE IF fld.ftype = "image"
           THEN IF img = "raised"
                THEN Raise("fetch_image", canvas)
                ELSE /\ next(DrawImageUrl(canvas, fld.idx, img))
                     /\ fetchCalls' = Append(fetchCalls, [url |-> val, img |-> img])
                     /\ imageCalls' = imageCalls + 1
           ELSE next(canvas) /\ UNCHANGED <<fetchCalls, imageCalls>>

DispatchField ==
    /\ \E outcome \in FetchOutcomes : DispatchFieldStep(outcome)
    /\ UNCHANGED textVars

\* c.save(); data = packet.getvalue(); if not data: writer.add_page(page); continue
\* A canvas that was drawn on always saves bytes; what an untouched canvas
\* saves is left open (empty or a document of no page).
SaveOverlay ==
    /\ pc = "fields"
    /\ fi > Len(FieldsOfPage(fields_by_page, pi))
    /\ \E empty \in (IF canvas = <<>> THEN BOOLEAN ELSE {FALSE}) :
        /\ data' = [empty |-> empty, pages |-> IF empty THEN 0 ELSE OverlayPages(canvas)]
        /\ IF empty
           THEN /\ writer' = AddPage(writer, pi, "base", "NoOverlay", FALSE)
                /\ pi' = pi + 1
                /\ pc' = "page_loop"
           ELSE /\ pc' = "merge"
                /\ UNCHANGED <<writer, pi>>
    /\ UNCHANGED <<tpl, values, err, declared, fieldPages, hashComputed, warned, numPages,
                   fields_by_page, fi, fld, canvas, opened, written, fetchCalls, imageCalls>>
    /\ UNCHANGED textVars

\* try: PdfReader(data); if pages: page.merge_page(...) except: pass; add_page
MergeOverlayStep_NoExcept(decodeOk, mergeOk) ==
    /\ pc = "merge"
    /\ IF ~decodeOk \/ (data.pages > 0 /\ ~mergeOk)
       THEN Raise("merge", canvas)
       ELSE /\ writer' = IF data.pages = 0
                         THEN AddPage(writer, pi, "base", "NoOverlayPage", FALSE)
                         ELSE AddPage(writer, pi, "merged", "MergeOk", TRUE)
            /\ pi' = pi + 1
            /\ pc' = "page_loop"
            /\ UNCHANGED <<tpl, values, err, declared, fieldPages, hashComputed, warned,
                           numPages, fields_by_page, fi, fld, canvas, data, opened, written,
                           fetchCalls, imageCalls>>

MergeOverlayStep(decodeOk, mergeOk) ==
    /\ pc = "merge"
    /\ writer' = IF ~decodeOk
                 THEN AddPage(writer, pi, "base", "MergeFailed", FALSE)
                 ELSE IF data.pages = 0
                 THEN AddPage(writer, pi, "base", "NoOverlayPage", FALSE)
                 ELSE IF mergeOk
                 THEN AddPage(writer, pi, "merged", "MergeOk", TRUE)
                 ELSE AddPage(writer, pi, "base", "MergeFailed", TRUE)
    /\ pi' = pi + 1
    /\ pc' = "page_loop"
    /\ UNCHANGED <<tpl, values, err, declared, fieldPages, hashComputed, warned,
                   numPages, fields_by_page, fi, fld, canvas, data, opened, written,
                   fetchCalls, imageCalls>>

MergeOverlay ==
    /\ \E decodeOk \in BOOLEAN, mergeOk \in BOOLEAN : MergeOverlayStep(decodeOk, mergeOk)
    /\ UNCHANGED textVars

\* with open(out_path, "wb") as f: writer.write(f)
WriteOutput ==
    /\ pc = "write"
    /\ opened' = opened + 1
    /\ written' = writer
    /\ pc' = "done"
    /\ UNCHANGED <<tpl, values, err, declared, fieldPages, hashComputed, warned, numPages,
                   fields_by_page, pi, fi, fld, canvas, data, writer, fetchCalls, imageCalls>>
    /\ UNCHANGED textVars

TextIdle ==
    /\ tpc = "idle" /\ text = <<>> /\ box_pts = <<0, 0, 0, 0>> /\ size = 0
    /\ valign = "" /\ max_w = 0 /\ words = <<>> /\ wi = 0 /\ line = <<>>
    /\ lines = <<>> /\ y = 0 /\ li = 0 /\ drawn = <<>>

Init ==
    /\ tpl \in {"missing", "unreadable", "ok"}
    /\ values \in ValueMaps
    /\ pc = "load_spec"
    /\ err = ""
    /\ declared = FALSE
    /\ fieldPages = <<>>
    /\ hashComputed = FALSE
    /\ warned = FALSE
    /\ numPages = 0
    /\ fields_by_page = <<>>
    /\ pi = 0
    /\ fi = 0
    /\ fld = NoField
    /\ canvas = <<>>
    /\ data = [empty |-> TRUE, pages |-> 0]
    /\ writer = <<>>
    /\ opened = 0
    /\ written = <<>>
    /\ fetchCalls = <<>>
    /\ imageCalls = 0
    /\ TextIdle

Next ==
    \/ LoadSpec
    \/ CheckDigest
    \/ ReadTemplate
    \/ GroupFields
    \/ BeginPage
    \/ PickField
    \/ DispatchField
    \/ SaveOverlay
    \/ MergeOverlay
    \/ WriteOutput

Spec == Init /\ [][Next]_vars

\* ------------------------------------------------------------ claims on render()
Drawable(f) ==
    /\ f.ftype \in DrawTypes
    /\ ~EndsWith(f.name, SuffixStatusLabel)
    /\ ~EndsWith(f.name, SuffixLbl)

\* the operations the step put on the canvas
NewOps == SubSeq(canvas', Len(canvas) + 1, Len(canvas'))

\* C1: when render reaches the end, the output holds exactly the n template
\* pages, the i-th output page built from the i-th template page, each appended
\* once and in order whatever outcome the page took; a page whose overlay decode
\* or merge raised is appended as the template page and the loop goes on.
C1_PagesInOrder ==
    /\ \A i \in 1..Len(writer) :
        /\ writer[i].src = i
        /\ writer[i].outcome = "MergeFailed" => writer[i].content = "base"
    /\ pc \in {"page_loop", "fields", "dispatch", "merge"} => Len(writer) = pi - 1
    /\ pc = "write" => Len(writer) = numPages
    /\ pc = "done" => /\ Len(written) = numPages
                      /\ \A i \in 1..numPages : written[i].src = i

C1_Witness ==
    /\ pc = "done"
    /\ Len(written) >= 2
    /\ written[1].outcome = "MergeFailed"
    /\ written[2].outcome = "MergeOk"

\* C2 (as claimed): a failure while a field is drawn never makes render raise.
C2_FieldFailureContained == ~(pc = "raised" /\ err = "field_draw")

\* C2 (amended): failures of the image fetch and of the decode or merge of a
\* page's overlay are contained (render never raises for them, the page is
\* emitted as the template page, the later pages are processed and the output
\* is written); an error raised while a field is drawn leaves render, and then
\* no output is written.
C2_ContainedFailures ==
    /\ pc = "raised" =>
        /\ err \in {"spec_missing", "template_missing", "template_unreadable", "field_draw"}
        /\ opened = 0
        /\ written = <<>>
    /\ \A i \in 1..Len(writer) :
        writer[i].outcome = "MergeFailed" => writer[i].content = "base"
    /\ pc = "done" => opened = 1 /\ Len(written) = numPages

C2_Witness ==
    /\ pc = "done"
    /\ opened = 1
    /\ \E i \in 1..Len(written) :
        /\ i < Len(written)
        /\ written[i].outcome = "MergeFailed"
        /\ written[i].mergeTried

\* C3: a page on which no field was drawn (none declared, or all skipped) is
\* emitted without any merge attempted on it and equal to the template page.
C3_NoFieldNoMerge ==
    (pc = "page_loop" /\ pi > 1 /\ canvas = <<>>) =>
        /\ writer[pi - 1].content = "base"
        /\ ~writer[pi - 1].mergeTried
        /\ writer[pi - 1].outcome # "MergeOk"

C3_Witness ==
    /\ pc = "page_loop"
    /\ pi > 1
    /\ canvas = <<>>
    /\ Len(FieldsOfPage(fields_by_page, pi - 1)) > 0
    /\ writer[pi - 1].outcome = "NoOverlay"

\* C4: the value a drawable field is rendered with is values[name] when name is
\* a key of the map (also an empty or false value), else the placeholder when
\* declared, else the sentinel, for every type; a text, multiline or link field
\* without value and placeholder hands the sentinel string to the text renderer.
C4_Wanted(f) ==
    IF f.name \in DOMAIN values THEN values[f.name]
    ELSE IF f.hasPlaceholder THEN f.placeholder
    ELSE StrV(Sentinel)

C4_ResolvedValue ==
    [][(pc = "dispatch" /\ pc' = "fields" /\ Drawable(fld)) =>
        /\ fld.ftype \in {"text", "multiline", "link"} =>
            /\ NewOps = <<Op(fld.idx, "text", PyStr(C4_Wanted(fld)),
                             IF fld.ftype = "link" THEN "middle" ELSE "top")>>
            /\ (fld.name \notin DOMAIN values /\ ~fld.hasPlaceholder) =>
                    NewOps[1].arg = "Data not found in test data"
        /\ fld.ftype = "checkbox" =>
            NewOps = <<Op(fld.idx, "checkbox",
                          IF PyBool(C4_Wanted(fld)) THEN "checked" ELSE "unchecked", "")>>
        /\ fld.ftype = "image" =>
            /\ Len(fetchCalls') = Len(fetchCalls) + 1
            /\ fetchCalls'[Len(fetchCalls')].url = C4_Wanted(fld)
    ]_vars

C4_Witness ==
    /\ pc = "fields"
    /\ NameDate \notin DOMAIN values
    /\ \E k \in 1..Len(canvas) :
        canvas[k].kind = "text" /\ canvas[k].arg = Sentinel

\* the page the canvas belongs to: pi, or the page before once it was appended
CanvasPage == IF pc \in {"page_loop", "write", "done"} THEN pi - 1 ELSE pi

\* C5: a field is drawn on the canvas of page p exactly when its page is p, an
\* existing template page, its type is text, multiline, checkbox, image or link
\* and its name carries no label suffix; every other field draws nothing, raises
\* nothing and leaves the loop to go on with the next field.
C5_DrawnIffDrawable ==
    /\ [](\A k \in 1..Len(canvas) :
            /\ canvas[k].idx \in 1..Len(fieldPages)
            /\ fieldPages[canvas[k].idx] = CanvasPage
            /\ CanvasPage \in 1..numPages)
    /\ [][pc = "dispatch" =>
            /\ (canvas' # canvas) <=> Drawable(fld)
            /\ \A k \in 1..Len(NewOps) : NewOps[k].idx = fld.idx
            /\ fieldPages[fld.idx] = pi
            /\ ~Drawable(fld) => (pc' = "fields" /\ fi' = fi + 1 /\ err' = "")
       ]_vars

C5_Witness ==
    /\ pc = "fields"
    /\ fi = 3
    /\ Len(canvas) = 1
    /\ canvas[1].idx = FieldsOfPage(fields_by_page, pi)[2]

\* C6: out_path is opened once, after every template page was appended to the
\* writer; a run that raises before has never opened it.
C6_OutputOnce ==
    /\ opened \in {0, 1}
    /\ opened = 1 <=> pc = "done"
    /\ pc = "done" => (written = writer /\ Len(writer) = numPages)
    /\ pc # "done" => written = <<>>

C6_Witness ==
    /\ pc = "raised"
    /\ err = "field_draw"
    /\ Len(writer) >= 1
    /\ opened = 0

\* C7: fetch_image returns an image or absent and never raises; when it is
\* absent draw_image_url has fetched once, draws the bordered placeholder and
\* the text "Image unavailable", raises nothing, and the loop goes on.
C7_ImageFallback ==
    /\ [](/\ err # "fetch_image"
          /\ Len(fetchCalls) = imageCalls
          /\ \A k \in 1..Len(fetchCalls) : fetchCalls[k].img \in {"image", "absent"})
    /\ [][(pc = "dispatch" /\ Drawable(fld) /\ fld.ftype = "image") =>
            /\ pc' = "fields" /\ fi' = fi + 1 /\ err' = ""
            /\ imageCalls' = imageCalls + 1
            /\ Len(fetchCalls') = Len(fetchCalls) + 1
            /\ IF fetchCalls'[Len(fetchCalls')].img = "absent"
               THEN NewOps = <<Op(fld.idx, "rect", "blue", ""),
                               Op(fld.idx, "text", "Image unavailable", "middle")>>
               ELSE NewOps = <<Op(fld.idx, "image", "scaled", "")>>
       ]_vars

C7_Witness ==
    /\ pc = "fields"
    /\ Len(canvas) = 3
    /\ canvas[1].kind = "rect"
    /\ canvas[2].arg = "Image unavailable"
    /\ canvas[3].kind = "checkbox"
    /\ Len(fetchCalls) = 1
    /\ fetchCalls[1].img = "absent"

\* C9: the digest is computed only when the spec declares template_sha256; a
\* mismatch prints the warning and changes nothing else: the step goes on to
\* read the template, and the run ends with every page written.
C9_DigestAdvisory ==
    /\ [](/\ hashComputed => declared
          /\ warned => hashComputed
          /\ pc = "done" => (opened = 1 /\ Len(written) = numPages))
    /\ [][(pc = "check_digest" /\ (declared => tpl # "missing")) =>
            /\ pc' = "read_template"
            /\ hashComputed' = declared
            /\ warned' => declared
            /\ UNCHANGED <<tpl, values, err, declared, fieldPages, numPages, fields_by_page,
                           pi, fi, fld, canvas, data, writer, opened, written,
                           fetchCalls, imageCalls>>
       ]_vars

C9_Witness ==
    /\ pc = "done"
    /\ warned
    /\ Len(written) >= 1
    /\ written[1].outcome = "MergeOk"

\* ------------------------------------------- draw_text_in_box() and wrap_text()
\* A text is a sequence of characters, or None.
Alphabet == {"a", "W", " "}
Chars(n) == UNION {[1..k -> Alphabet] : k \in 0..n}
Texts == {[none |-> TRUE, chars |-> <<>>]} \cup {[none |-> FALSE, chars |-> c] : c \in Chars(MaxTextLen)}

\* (text or "")
PyOr(t) == IF t.none THEN <<>> ELSE t.chars

\* stringWidth(s, font_name, font_size): the sum of the glyph widths of the
\* font, scaled by the size (glyph widths in units of a space)
GlyphWidth(ch) == IF ch = " " THEN 1 ELSE IF ch = "a" THEN 2 ELSE 4

RECURSIVE GlyphSum(_)
GlyphSum(s) == IF s = <<>> THEN 0 ELSE GlyphWidth(Head(s)) + GlyphSum(Tail(s))

stringWidth(s, font_size) == GlyphSum(s) * font_size

\* str.split(): the maximal runs of non-space characters
RECURSIVE SplitFrom(_, _, _)
SplitFrom(s, acc, word) ==
    IF s = <<>>
    THEN IF word = <<>> THEN acc ELSE Append(acc, word)
    ELSE IF Head(s) = " "
    THEN SplitFrom(Tail(s), IF word = <<>> THEN acc ELSE Append(acc, word), <<>>)
    ELSE SplitFrom(Tail(s), acc, Append(word, Head(s)))

Split(s) == SplitFrom(s, <<>>, <<>>)

\* str.strip()
RECURSIVE LStrip(_)
LStrip(s) == IF s # <<>> /\ Head(s) = " " THEN LStrip(Tail(s)) ELSE s

RECURSIVE RStrip(_)
RStrip(s) ==
    IF s # <<>> /\ s[Len(s)] = " " THEN RStrip(SubSeq(s, 1, Len(s) - 1)) ELSE s

Strip(s) == RStrip(LStrip(s))

\* the test of wrap_text: stringWidth(cand, font_name, font_size) <= max_width
Fits_Strict(cand, font_size, max_width) == stringWidth(cand, font_size) < max_width

Fits(cand, font_size, max_width) == stringWidth(cand, font_size) <= max_width

Pad == 2

\* line_h = size * 1.2 (the sizes of the model are multiples of 5)
LineHeight(font_size) == (font_size * 12) \div 10

Max(a, b) == IF a >= b THEN a ELSE b

Sizes == {5, 10}
Valigns == {"top", "middle", "bottom"}
\* boxes: narrower than the padding, narrow and wide; the heights are even
Boxes == {<<x0, y0, x0 + w, y0 + h>> : x0 \in {0, 6}, y0 \in {0, 10},
                                      w \in {2, 14, 29, 44}, h \in {12, 24}}

\* x0, y0, x1, y1 = box_pts; pad = 2; max_w = ...; lines = wrap_text(...) begins:
\* words = (text or "").split(); lines, line = [], ""
EnterDraw ==
    /\ tpc = "start"
    /\ max_w' = Max(0, (box_pts[3] - box_pts[1]) - 2 * Pad)
    /\ words' = Split(PyOr(text))
    /\ lines' = <<>>
    /\ line' = <<>>
    /\ wi' = 1
    /\ tpc' = "wrap"
    /\ UNCHANGED <<text, box_pts, size, valign, y, li, drawn>>
    /\ UNCHANGED renderVars

\* for w in words: one iteration
WrapWord ==
    /\ tpc = "wrap"
    /\ wi <= Len(words)
    /\ LET w == words[wi]
           cand == Strip(line \o <<" ">> \o w)
       IN  IF Fits(cand, size, max_w)
           THEN /\ line' = cand
                /\ UNCHANGED lines
           ELSE /\ lines' = IF line # <<>> THEN Append(lines, line) ELSE lines
                /\ line' = w
    /\ wi' = wi + 1
    /\ UNCHANGED <<tpc, text, box_pts, size, valign, max_w, words, y, li, drawn>>
    /\ UNCHANGED renderVars

\* if line: lines.append(line); return lines; then the first baseline
WrapReturn ==
    /\ tpc = "wrap"
    /\ wi > Len(words)
    /\ lines' = IF line # <<>> THEN Append(lines, line) ELSE lines
    /\ tpc' = "place"
    /\ UNCHANGED <<text, box_pts, size, valign, max_w, words, wi, line, y, li, drawn>>
    /\ UNCHANGED renderVars

\* line_h = size * 1.2; if valign == "top": ... elif "middle": ... else: ...
PlaceText ==
    /\ tpc = "place"
    /\ LET y0 == box_pts[2]
           y1 == box_pts[4]
           line_h == LineHeight(size)
           total_h == line_h * Len(lines)
       IN  y' = IF valign = "top" THEN y1 - Pad - size
                ELSE IF valign = "middle"
                THEN y0 + ((y1 - y0 - total_h) \div 2) + (Len(lines) - 1) * line_h
                ELSE y0 + Pad
    /\ li' = 1
    /\ tpc' = "draw"
    /\ UNCHANGED <<text, box_pts, size, valign, max_w, words, wi, line, lines, drawn>>
    /\ UNCHANGED renderVars

\* for ln in lines: c.drawString(x0 + pad, y, ln); y -= line_h
DrawLine ==
    /\ tpc = "draw"
    /\ li <= Len(lines)
    /\ drawn' = Append(drawn, [x |-> box_pts[1] + Pad, y |-> y, ln |-> lines[li]])
    /\ y' = y - LineHeight(size)
    /\ li' = li + 1
    /\ UNCHANGED <<tpc, text, box_pts, size, valign, max_w, words, wi, line, lines>>
    /\ UNCHANGED renderVars

\* the loop is over and debug is off: draw_text_in_box returns
ReturnFromDraw ==
    /\ tpc = "draw"
    /\ li > Len(lines)
    /\ tpc' = "done"
    /\ UNCHANGED <<text, box_pts, size, valign, max_w, words, wi, line, lines, y, li, drawn>>
    /\ UNCHANGED renderVars

RenderIdle ==
    /\ tpl = "ok" /\ values = <<>> /\ pc = "idle" /\ err = "" /\ declared = FALSE
    /\ fieldPages = <<>> /\ hashComputed = FALSE /\ warned = FALSE /\ numPages = 0
    /\ fields_by_page = <<>> /\ pi = 0 /\ fi = 0 /\ fld = NoField /\ canvas = <<>>
    /\ data = [empty |-> TRUE, pages |-> 0] /\ writer = <<>> /\ opened = 0
    /\ written = <<>> /\ fetchCalls = <<>> /\ imageCalls = 0

InitText ==
    /\ RenderIdle
    /\ tpc = "start"
    /\ text \in Texts
    /\ box_pts \in Boxes
    /\ size \in Sizes
    /\ valign \in Valigns
    /\ max_w = 0 /\ words = <<>> /\ wi = 0 /\ line = <<>> /\ lines = <<>>
    /\ y = 0 /\ li = 0 /\ drawn = <<>>

NextText ==
    \/ EnterDraw
    \/ WrapWord
    \/ WrapReturn
    \/ PlaceText
    \/ DrawLine
    \/ ReturnFromDraw

SpecText == InitText /\ [][NextText]_vars

\* ------------------------------------------------- claims on the text layout
RECURSIVE Flatten(_)
Flatten(ss) == IF ss = <<>> THEN <<>> ELSE Head(ss) \o Flatten(Tail(ss))

NoSpaces(s) == SelectSeq(s, LAMBDA ch : ch # " ")

\* the lines wrap_text returned, once it has returned
Wrapped == tpc \in {"place", "draw", "done"}

\* C8: the words of the returned lines, read in order, are the words of the
\* input, none split, dropped, doubled or reordered; a line of two or more words
\* fits max_width; a word starts a new line only when appending it to the line
\* before would exceed max_width; a word wider than max_width stands alone;
\* empty or absent text gives no line, and no line is empty.
C8_WrapText ==
    Wrapped =>
        LET input == PyOr(text)
            lineWords == [k \in 1..Len(lines) |-> Split(lines[k])]
        IN  /\ Flatten(lineWords) = Split(input)
            /\ NoSpaces(Flatten(lines)) = NoSpaces(input)
            /\ Len(Flatten(lineWords)) = Len(Split(input))
            /\ \A k \in 1..Len(lines) :
                /\ lines[k] # <<>>
                /\ Len(lineWords[k]) >= 1
                /\ lines[k] = Strip(lines[k])
                /\ Len(lineWords[k]) >= 2 => stringWidth(lines[k], size) <= max_w
                /\ \A j \in 1..Len(lineWords[k]) :
                    stringWidth(lineWords[k][j], size) > max_w => Len(lineWords[k]) = 1
                /\ k > 1 =>
                    stringWidth(lines[k - 1] \o <<" ">> \o lineWords[k][1], size) > max_w
            /\ (text.none \/ input = <<>>) => lines = <<>>

C8_Witness ==
    /\ tpc = "done"
    /\ Len(lines) = 2
    /\ Len(Split(lines[1])) = 2
    /\ stringWidth(lines[1], size) = max_w

\* C10: with valign bottom and k >= 1 lines, the last line is drawn at
\* y0 + padding, each earlier line one line height above the line after it, no
\* line below y0 + padding, and every line starts at x0 + padding.
C10_BottomAscends ==
    (tpc = "done" /\ valign = "bottom" /\ Len(lines) >= 1) =>
        LET k == Len(drawn)
        IN  /\ k = Len(lines)
            /\ drawn[k].y = box_pts[2] + 2
            /\ \A j \in 1..(k - 1) : drawn[j].y = drawn[j + 1].y + LineHeight(size)
            /\ \A j \in 1..k :
                /\ drawn[j].ln = lines[j]
                /\ drawn[j].y >= box_pts[2] + 2
                /\ drawn[j].x = box_pts[1] + 2

====
